---- MODULE Spec2Model ----
(***************************************************************************)
(* Model of the Volt backend (src/backend/main.py) and of the stand-alone  *)
(* battery service (src/backend/battery_service.py).                       *)
(*                                                                         *)
(* Numbers.  The code computes with floats.  The model uses exact integer  *)
(* arithmetic in the unit U = 1/600000 percent, so that 100.0 percent is   *)
(* Scale * 100 and a rate of 0.0001 percent per minute applied for one     *)
(* second is exactly 1 U.  Rates are kept in hundredths of a percent per   *)
(* minute (main.py) or thousandths (battery_service.py), the stress        *)
(* multiplier in hundredths, times in whole seconds, distances in metres.  *)
(* The HRV values drawn divide the baseline exactly in hundredths.         *)
(***************************************************************************)
EXTENDS Integers, Sequences, FiniteSets, TLC

VARIABLES
    proc,                \* "down" or "up": whether the server process runs
    level,               \* battery_core.level, in U
    db,                  \* rows of table battery_state with id=1 (none or one)
                         \* (column last_updated is written, never read, and
                         \* is left out)
    pc,                  \* where each connection's websocket_endpoint stands
    last_time,           \* the local last_time of each websocket_endpoint
    result,              \* the result a connection is about to send
    active_connections,  \* manager.active_connections
    lastTick,            \* history: the last call of battery_core.update
    completed,           \* history: level held when the last tick completed
    serial,              \* history: the ticks applied one after another
    nticks,              \* number of ticks (or service calls) so far
    svc                  \* battery_service: the last calculate_state call

vars == <<proc, level, db, pc, last_time, result, active_connections,
          lastTick, completed, serial, nticks, svc>>

mainVarsButTicks ==
    <<proc, level, db, pc, last_time, result, active_connections, lastTick,
      completed, serial>>

(***************************************************************************)
(* Bounds of the model.                                                    *)
(***************************************************************************)
\* ticks in a run with one client
MaxTicks == 2
\* ticks in a run with several clients
MaxSharedTicks == 3
\* calls of calculate_state in a run of the service
MaxCalls == 2

Conns == {"w1", "w2"}

\* one percent, in U
Scale == 600000

\* python None as hrv_value
NoHrv == [present |-> FALSE, value |-> 0]
SomeHrv(v) == [present |-> TRUE, value |-> v]

(***************************************************************************)
(* Inputs.                                                                 *)
(***************************************************************************)
\* haversine distance of the sample from home, in metres
Distances == {100, 101}
\* nearby_device_count as sent by the client (not validated by the code)
DeviceCounts == {-1, 0, 3}
\* hrv_value as sent by the client
HrvValues == {NoHrv} \cup {SomeHrv(v) : v \in {0, -20, 10, 40, 200}}
\* values datetime.now() can return, in seconds (a wall clock: it can stand
\* still or be set back between two reads)
Times == {0, 60}
\* what volt.db holds when the process first starts: no row, or one row
StoredRows == {<<>>} \cup
    {<<[level |-> l * Scale]>> : l \in {1, 50}}

Max(a, b) == IF a >= b THEN a ELSE b
Min(a, b) == IF a <= b THEN a ELSE b

(***************************************************************************)
(* VoltCore configuration (main.py 26-32) and constructor defaults.        *)
(***************************************************************************)
home_radius_m == 100
charge_rate_min == 100
base_drain_min == 10
social_factor == 25
max_stress_mult == 300
baseline_hrv == 50
DEFAULT_LEVEL == 100 * Scale

\* round(x, 2) of a level in U: hundredths of a percent, ties to even
Round2(x) ==
    LET q == x \div 6000
        r == x % 6000
    IN  IF r * 2 < 6000 THEN q
        ELSE IF r * 2 > 6000 THEN q + 1
        ELSE IF q % 2 = 0 THEN q ELSE q + 1

(***************************************************************************)
(* The store: table battery_state, row id=1.                               *)
(***************************************************************************)
\* _load_state: the level returned
LoadLevel(d) == IF d # <<>> THEN d[1].level ELSE DEFAULT_LEVEL

LoadStoreNoSeed(d) == d

\* _load_state: the table afterwards (INSERT only when no row was found)
LoadStore(d) == IF d # <<>> THEN d ELSE <<[level |-> DEFAULT_LEVEL]>>

SaveStateOtherRow(d, l) == d

\* _save_state: UPDATE ... WHERE id=1
SaveState(d, l) == IF d # <<>> THEN <<[level |-> l]>> ELSE d

(***************************************************************************)
(* VoltCore.update, step by step.                                          *)
(***************************************************************************)
IsHome(dist) == dist <= home_radius_m

HrvUsableNotZero(hrv) == hrv.present /\ hrv.value # 0

\* python truthiness of "hrv and hrv > 0"
HrvUsable(hrv) == hrv.present /\ hrv.value # 0 /\ hrv.value > 0

StressMultiplierNoCap(hrv) ==
    IF HrvUsable(hrv)
    THEN Max(50, (baseline_hrv * 100) \div hrv.value)
    ELSE 100

\* stress multiplier of an away tick, in hundredths
StressMultiplier(hrv) ==
    IF HrvUsable(hrv)
    THEN Max(50, Min((baseline_hrv * 100) \div hrv.value, max_stress_mult))
    ELSE 100

\* the local "multiplier" at the return statement, in hundredths
Multiplier(is_home, hrv) == IF is_home THEN 0 ELSE StressMultiplier(hrv)

StatusIdleAway(is_home) == IF is_home THEN "RECHARGING" ELSE "IDLE"

Status(is_home) == IF is_home THEN "RECHARGING" ELSE "DRAINING"

DeltaCrowdedCharge(is_home, device_count, hrv, time_delta_sec) ==
    IF is_home
    THEN (charge_rate_min - device_count * social_factor)
             * 100 * time_delta_sec
    ELSE -((base_drain_min + device_count * social_factor)
             * StressMultiplier(hrv) * time_delta_sec)

\* delta, in U, for time_delta_sec seconds
Delta(is_home, device_count, hrv, time_delta_sec) ==
    IF is_home
    THEN charge_rate_min * 100 * time_delta_sec
    ELSE -((base_drain_min + device_count * social_factor)
             * StressMultiplier(hrv) * time_delta_sec)

ReadLevelFromStore(c) == LoadLevel(db)

\* the value of self.level a tick starts from
ReadLevel(c) == level

NewLevelNoFloor(cur, delta) == Min(100 * Scale, cur + delta)

NewLevel(cur, delta) == Max(0, Min(100 * Scale, cur + delta))

UpdateResult(new_level, is_home, hrv) ==
    [current_level |-> Round2(new_level),
     status |-> Status(is_home),
     stress_multiplier |-> Multiplier(is_home, hrv),
     is_home |-> is_home]

DeltaSecFixed(measured) == 1

DeltaSecNoFallback(measured) == measured

\* websocket_endpoint: the delta handed to update for a measured delta
DeltaSec(measured) == IF measured <= 0 THEN 1 ELSE measured

(***************************************************************************)
(* The state before the process first starts.                              *)
(***************************************************************************)
Init ==
    /\ proc = "down"
    /\ level = 0
    /\ db \in StoredRows
    /\ pc = [c \in Conns |-> "new"]
    /\ last_time = [c \in Conns |-> 0]
    /\ result = [c \in Conns |-> <<>>]
    /\ active_connections = <<>>
    /\ lastTick = <<>>
    /\ completed = <<>>
    /\ serial = 0
    /\ nticks = 0
    /\ svc = <<>>

(***************************************************************************)
(* Process start: the module body builds battery_core, whose constructor   *)
(* loads the level from the store.                                         *)
(***************************************************************************)
Start ==
    /\ proc = "down"
    /\ level' = LoadLevel(db)
    /\ db' = LoadStore(db)
    /\ proc' = "up"
    /\ serial' = level'
    /\ completed' = IF completed = <<>> THEN <<level'>> ELSE completed
    /\ UNCHANGED <<pc, last_time, result, active_connections, lastTick,
                   nticks, svc>>

\* Process exit: the connections and everything in memory are gone; the
\* store stays.
Stop ==
    /\ proc = "up"
    /\ proc' = "down"
    /\ level' = 0
    /\ serial' = 0
    /\ pc' = [c \in Conns |-> "new"]
    /\ last_time' = [c \in Conns |-> 0]
    /\ result' = [c \in Conns |-> <<>>]
    /\ active_connections' = <<>>
    /\ lastTick' = <<>>
    /\ UNCHANGED <<db, completed, nticks, svc>>

(***************************************************************************)
(* websocket_endpoint, one action per stretch of code between two awaits.  *)
(* The locals of a loop that has ended no longer exist: last_time is set   *)
(* back to 0 then.                                                         *)
(***************************************************************************)
\* manager.connect and the first read of the clock
Connect(c) ==
    /\ proc = "up"
    /\ pc[c] = "new"
    /\ \E now \in Times : last_time' = [last_time EXCEPT ![c] = now]
    /\ active_connections' = Append(active_connections, c)
    /\ pc' = [pc EXCEPT ![c] = "recv"]
    /\ UNCHANGED <<proc, level, db, result, lastTick, completed, serial,
                   nticks, svc>>

\* receive_json returns a sample; the code runs without an await from there
\* to the return of battery_core.update.  save_ok: whether the UPDATE of
\* _save_state went through or sqlite3 raised.
Tick(c, dist, device_count, hrv, now, save_ok, limit) ==
    LET measured == now - last_time[c]
        delta_sec == DeltaSec(measured)
        is_home == IsHome(dist)
        cur == ReadLevel(c)
        new == NewLevel(cur, Delta(is_home, device_count, hrv, delta_sec))
    IN  /\ proc = "up"
        /\ pc[c] = "recv"
        /\ nticks < limit
        /\ nticks' = nticks + 1
        /\ last_time' = [last_time EXCEPT ![c] = IF save_ok THEN now ELSE 0]
        /\ level' = new
        /\ serial' = NewLevel(serial, Delta(is_home, device_count, hrv, delta_sec))
        /\ lastTick' = <<[conn |-> c, is_home |-> is_home,
                          device_count |-> device_count, hrv |-> hrv,
                          now |-> now, measured |-> measured,
                          time_delta_sec |-> delta_sec,
                          multiplier |-> Multiplier(is_home, hrv),
                          before |-> level, after |-> new,
                          saved |-> save_ok]>>
        /\ IF save_ok
           THEN /\ db' = SaveState(db, new)
                /\ result' = [result EXCEPT
                                 ![c] = <<UpdateResult(new, is_home, hrv)>>]
                /\ pc' = [pc EXCEPT ![c] = "send"]
                /\ completed' = <<new>>
           ELSE /\ pc' = [pc EXCEPT ![c] = "crashed"]
                /\ UNCHANGED <<db, result, completed>>
        /\ UNCHANGED <<proc, active_connections, svc>>

Receive(c) ==
    \E dist \in Distances, device_count \in DeviceCounts, hrv \in HrvValues,
       now \in Times, save_ok \in BOOLEAN :
        Tick(c, dist, device_count, hrv, now, save_ok, MaxTicks)

\* the same step, with fewer kinds of samples (used with several connections)
ReceiveShared(c) ==
    \E dist \in Distances, device_count \in {3}, hrv \in {NoHrv, SomeHrv(10)},
       now \in Times, save_ok \in BOOLEAN :
        Tick(c, dist, device_count, hrv, now, save_ok, MaxSharedTicks)

\* manager.send_personal_message
Send(c) ==
    /\ proc = "up"
    /\ pc[c] = "send"
    /\ pc' = [pc EXCEPT ![c] = "recv"]
    /\ result' = [result EXCEPT ![c] = <<>>]
    /\ UNCHANGED <<proc, level, db, last_time, active_connections, lastTick,
                   completed, serial, nticks, svc>>

RemoveConn(s, c) == SelectSeq(s, LAMBDA x : x # c)

\* receive_json raises WebSocketDisconnect
Disconnect(c) ==
    /\ proc = "up"
    /\ pc[c] = "recv"
    /\ active_connections' = RemoveConn(active_connections, c)
    /\ pc' = [pc EXCEPT ![c] = "closed"]
    /\ last_time' = [last_time EXCEPT ![c] = 0]
    /\ UNCHANGED <<proc, level, db, result, lastTick, completed, serial,
                   nticks, svc>>

MalformedEndsEveryLoop(c) ==
    /\ proc = "up"
    /\ pc[c] = "recv"
    /\ pc' = [d \in Conns |-> IF pc[d] = "new" THEN "new" ELSE "crashed"]
    /\ last_time' = [d \in Conns |-> 0]
    /\ result' = [d \in Conns |-> <<>>]
    /\ UNCHANGED <<proc, level, db, active_connections, lastTick, completed,
                   serial, nticks, svc>>

\* receive_json raises on a message that is not JSON: no handler catches it
Malformed(c) ==
    /\ proc = "up"
    /\ pc[c] = "recv"
    /\ pc' = [pc EXCEPT ![c] = "crashed"]
    /\ last_time' = [last_time EXCEPT ![c] = 0]
    /\ UNCHANGED <<proc, level, db, result, active_connections, lastTick,
                   completed, serial, nticks, svc>>

\* One client, every kind of sample.
Next ==
    \/ Start
    \/ Stop
    \/ Connect("w1")
    \/ Receive("w1")
    \/ Send("w1")
    \/ Disconnect("w1")
    \/ Malformed("w1")

Spec == Init /\ [][Next]_vars

\* Several clients on the one battery_core.
NextShared ==
    \/ Start
    \/ \E c \in Conns : Connect(c)
    \/ \E c \in Conns : ReceiveShared(c)
    \/ \E c \in Conns : Send(c)
    \/ \E c \in Conns : Disconnect(c)
    \/ \E c \in Conns : Malformed(c)

SpecShared == Init /\ [][NextShared]_vars

(***************************************************************************)
(* battery_service.py: calculate_state, a function of its arguments.       *)
(* Rates are in thousandths of a percent per minute, the crowd multiplier  *)
(* in thousandths.                                                         *)
(***************************************************************************)
HOME_RADIUS_M == 50
BASE_DRAIN_RATE == 5000
CHARGE_RATE == 10000
CROWD_FACTOR == 200

calculate_state_signed(current_level, distance, nearby_devices, time_delta_seconds) ==
    LET is_at_home == distance <= HOME_RADIUS_M
        multiplier == 1000 + nearby_devices * CROWD_FACTOR
        rate == IF is_at_home THEN CHARGE_RATE
                ELSE (BASE_DRAIN_RATE * multiplier) \div 1000
        change == rate * time_delta_seconds * 10
        new_level ==
            IF time_delta_seconds > 0
            THEN IF is_at_home
                 THEN Min(100 * Scale, current_level + change)
                 ELSE Max(0, current_level - change)
            ELSE current_level
    IN  [level |-> new_level,
         status |-> IF is_at_home THEN "CHARGING" ELSE "DRAINING",
         drain_rate |-> IF is_at_home THEN rate ELSE -rate,
         distance |-> distance,
         is_home |-> is_at_home]

calculate_state(current_level, distance, nearby_devices, time_delta_seconds) ==
    LET is_at_home == distance <= HOME_RADIUS_M
        multiplier == 1000 + nearby_devices * CROWD_FACTOR
        rate == IF is_at_home THEN CHARGE_RATE
                ELSE (BASE_DRAIN_RATE * multiplier) \div 1000
        \* rate * minutes, in U
        change == rate * time_delta_seconds * 10
        new_level ==
            IF time_delta_seconds > 0
            THEN IF is_at_home
                 THEN Min(100 * Scale, current_level + change)
                 ELSE Max(0, current_level - change)
            ELSE current_level
    IN  [level |-> new_level,
         status |-> IF is_at_home THEN "CHARGING" ELSE "DRAINING",
         drain_rate |-> IF ~is_at_home THEN rate ELSE -rate,
         distance |-> distance,
         is_home |-> is_at_home]

\* arguments a caller passes
ServiceLevels == {0, 50 * Scale, 100 * Scale}
ServiceDistances == {50, 51}
ServiceDevices == {-6, 0, 3}
ServiceSeconds == {-60, 0, 1, 60, 1200}

\* One call of calculate_state; the caller passes a level of its own or the
\* level the previous call returned.
ServiceCall ==
    /\ nticks < MaxCalls
    /\ nticks' = nticks + 1
    /\ \E current_level \in ServiceLevels \cup {svc[i].out.level : i \in DOMAIN svc},
          distance \in ServiceDistances,
          nearby_devices \in ServiceDevices,
          time_delta_seconds \in ServiceSeconds :
            svc' = <<[current_level |-> current_level,
                      nearby_devices |-> nearby_devices,
                      time_delta_seconds |-> time_delta_seconds,
                      out |-> calculate_state(current_level, distance,
                                              nearby_devices,
                                              time_delta_seconds)]>>
    /\ UNCHANGED mainVarsButTicks

InitService == Init /\ db = <<>>

NextService == ServiceCall

SpecService == InitService /\ [][NextService]_vars

TypeOK ==
    /\ proc \in {"down", "up"}
    /\ Len(db) <= 1
    /\ \A c \in Conns : pc[c] \in {"new", "recv", "send", "closed", "crashed"}

(***************************************************************************)
(* Properties.                                                             *)
(***************************************************************************)
InRange(l) == 0 <= l /\ l <= 100 * Scale

\* C1: after any sequence of ticks the level in memory and the level in the
\* store are both within [0.0, 100.0].
C1_LevelInRange ==
    /\ proc = "up" => InRange(level)
    /\ \A i \in DOMAIN db : InRange(db[i].level)

\* a draining tick that would have gone below zero was saved
C1_Witness ==
    /\ lastTick # <<>>
    /\ lastTick[1].saved
    /\ ~lastTick[1].is_home
    /\ lastTick[1].device_count >= 0
    /\ lastTick[1].before > 0
    /\ level = 0
    /\ db = <<[level |-> 0]>>

\* C2: with several connections on the one battery_core no update is lost:
\* the level is the result of applying the ticks one after another, in the
\* order in which they ran.
C2_NoLostUpdate == proc = "up" => level = serial

\* w2's tick ran between w1's tick and the sending of w1's result
C2_Witness ==
    /\ pc["w1"] = "send"
    /\ lastTick # <<>>
    /\ lastTick[1].conn = "w2"
    /\ lastTick[1].after # lastTick[1].before
    /\ nticks >= 2

\* C3 (as claimed): a tick whose measured elapsed time is zero or negative
\* leaves the level unchanged.
C3_NonPositiveElapsedNoOp ==
    (lastTick # <<>> /\ lastTick[1].measured <= 0)
        => lastTick[1].after = lastTick[1].before

\* C4 (as claimed): a tick at home never lowers the level, a tick away never
\* raises it.
C4_MonotoneTicks ==
    lastTick # <<>> =>
        /\ lastTick[1].is_home => lastTick[1].after >= lastTick[1].before
        /\ ~lastTick[1].is_home => lastTick[1].after <= lastTick[1].before

C6_StressMultiplierInRange ==
    \A c \in Conns : \A i \in DOMAIN result[c] :
        /\ 50 <= result[c][i].stress_multiplier
        /\ result[c][i].stress_multiplier <= 300

\* C6 (amended): the result of a tick away from home carries a
\* stress_multiplier within [0.5, 3.0]; the result of a tick at home
\* carries 0.0.
C6_StressMultiplierAway ==
    \A c \in Conns : \A i \in DOMAIN result[c] :
        IF result[c][i].is_home
        THEN result[c][i].stress_multiplier = 0
        ELSE /\ 50 <= result[c][i].stress_multiplier
             /\ result[c][i].stress_multiplier <= 300

\* an away result whose raw multiplier 50/10 was cut down to 3.0
C6_Witness ==
    /\ pc["w1"] = "send"
    /\ result["w1"] # <<>>
    /\ ~result["w1"][1].is_home
    /\ lastTick # <<>>
    /\ lastTick[1].hrv = SomeHrv(10)
    /\ result["w1"][1].stress_multiplier = 300

\* C7: a process start after completed ticks loads the level that was in
\* memory when the last tick completed.
C7_RestartLoadsLevel ==
    [][(proc = "down" /\ proc' = "up" /\ completed # <<>>)
          => level' = completed[1]]_vars

\* the process was restarted after a tick that changed the level
C7_Witness ==
    /\ proc = "up"
    /\ nticks > 0
    /\ pc["w1"] = "new"
    /\ completed # <<>>
    /\ level = completed[1]
    /\ <<[level |-> level]>> \notin StoredRows
    /\ level # DEFAULT_LEVEL

\* C8: load with no row returns 100.0 and leaves a seed row of 100.0; load
\* with a row returns the row's level and leaves the row as it is.
C8_LoadSeeds ==
    [][(proc = "down" /\ proc' = "up") =>
          IF db = <<>>
          THEN level' = 100 * Scale /\ db' = <<[level |-> 100 * Scale]>>
          ELSE level' = db[1].level /\ db' = db]_vars

\* the first start found no row and seeded one
C8_Witness ==
    /\ proc = "up"
    /\ nticks = 0
    /\ level = 100 * Scale
    /\ db = <<[level |-> 100 * Scale]>>

\* C9 (as claimed): a tick whose write to the store fails still yields its
\* result to the client and the connection's loop goes on.
C9_FailedSaveKeepsLoop ==
    [][(nticks' = nticks + 1 /\ lastTick' # <<>> /\ ~lastTick'[1].saved) =>
          /\ pc'[lastTick'[1].conn] = "send"
          /\ result'[lastTick'[1].conn] # <<>>
          /\ level' = lastTick'[1].after]_vars

\* C10 (as claimed): a tick with a negative device count changes neither
\* the level in memory nor the level in the store, and no normal result
\* comes of it.
C10_NegativeCountRejected ==
    [][(nticks' = nticks + 1 /\ lastTick' # <<>>
          /\ lastTick'[1].device_count < 0) =>
          /\ level' = level
          /\ db' = db
          /\ result'[lastTick'[1].conn] = <<>>]_vars

\* C11: when a connection ends through a disconnect or a malformed sample,
\* the process keeps running, the level in memory and in the store stay as
\* they are, and every other connection keeps its place in its loop, its
\* clock and its pending result.
C11_EndingIsLocal ==
    [][\A c \in Conns :
          (pc[c] = "recv" /\ pc'[c] \in {"closed", "crashed"}
             /\ nticks' = nticks) =>
              /\ proc' = "up"
              /\ level' = level
              /\ db' = db
              /\ \A d \in Conns \ {c} :
                    /\ pc'[d] = pc[d]
                    /\ result'[d] = result[d]
                    /\ last_time'[d] = last_time[d]]_vars

\* w1's loop has ended without a tick of its own having failed, and w2 has
\* a result of its sample to send
C11_Witness ==
    /\ pc["w1"] \in {"closed", "crashed"}
    /\ pc["w2"] = "send"
    /\ result["w2"] # <<>>
    /\ lastTick # <<>>
    /\ lastTick[1].conn = "w2"
    /\ nticks = 1
    /\ level = lastTick[1].after

\* C12 (as claimed): on each connection a sample is read only when no
\* result of that connection is still to be sent, every sample read leaves
\* exactly one result to send, that result is the one of this sample, and
\* it is there only with its level already written to the store.
C12_OneResultPerSample ==
    [][(nticks' = nticks + 1 /\ lastTick' # <<>>) =>
          LET c == lastTick'[1].conn
          IN  /\ pc[c] = "recv"
              /\ result[c] = <<>>
              /\ pc'[c] = "send"
              /\ Len(result'[c]) = 1
              /\ result'[c][1].current_level = Round2(lastTick'[1].after)
              /\ db' = <<[level |-> lastTick'[1].after]>>]_vars

\* what the drain formula of an away tick gives, in U
DrainOf(t) ==
    (base_drain_min + t.device_count * social_factor)
        * t.multiplier * t.time_delta_sec

\* C13 (as claimed): an away tick with positive elapsed time t sets the
\* level to max(0, level - (base_drain + device_count * social_factor)
\* * multiplier * t / 60).
C13_AwayLevel ==
    (lastTick # <<>> /\ ~lastTick[1].is_home
        /\ lastTick[1].time_delta_sec > 0) =>
        lastTick[1].after = Max(0, lastTick[1].before - DrainOf(lastTick[1]))

\* C14: a home tick with positive elapsed time t sets the level to
\* min(100, level + charge_rate * t / 60), whatever the device count and
\* the HRV of the sample.
C14_HomeLevel ==
    (lastTick # <<>> /\ lastTick[1].is_home
        /\ lastTick[1].time_delta_sec > 0) =>
        lastTick[1].after =
            Min(100 * Scale,
                lastTick[1].before
                    + charge_rate_min * 100 * lastTick[1].time_delta_sec)

\* a home tick of 60 s with three devices nearby and a low HRV raised the
\* level by one percent
C14_Witness ==
    /\ lastTick # <<>>
    /\ lastTick[1].is_home
    /\ lastTick[1].device_count = 3
    /\ lastTick[1].hrv = SomeHrv(10)
    /\ lastTick[1].time_delta_sec = 60
    /\ lastTick[1].before = 50 * Scale
    /\ lastTick[1].after = 51 * Scale

\* baseline_hrv / hrv cut to [0.5, max_stress_mult] for an HRV that is
\* present and positive, 1.0 otherwise, in hundredths
ClaimedMultiplier(hrv) ==
    IF hrv.present /\ hrv.value > 0
    THEN LET raw == (baseline_hrv * 100) \div hrv.value
         IN  IF raw < 50 THEN 50
             ELSE IF raw > max_stress_mult THEN max_stress_mult ELSE raw
    ELSE 100

\* C15: the stress multiplier of an away tick, the one its drain is
\* computed with, is baseline_hrv / hrv cut to [0.5, max_stress_mult] when
\* the HRV is present and > 0, and 1.0 when it is absent, zero or negative.
C15_AwayMultiplier ==
    (lastTick # <<>> /\ ~lastTick[1].is_home) =>
        /\ lastTick[1].multiplier = ClaimedMultiplier(lastTick[1].hrv)
        /\ lastTick[1].after =
              Max(0, Min(100 * Scale,
                  lastTick[1].before
                    - (base_drain_min + lastTick[1].device_count * social_factor)
                        * ClaimedMultiplier(lastTick[1].hrv)
                        * lastTick[1].time_delta_sec))

\* an away tick with a negative HRV drained at multiplier 1.0
C15_Witness ==
    /\ lastTick # <<>>
    /\ ~lastTick[1].is_home
    /\ lastTick[1].hrv = SomeHrv(-20)
    /\ lastTick[1].multiplier = 100
    /\ lastTick[1].device_count = 3
    /\ lastTick[1].after < lastTick[1].before

\* C16 (as claimed): the elapsed time used for the first sample on a
\* connection is the fixed fallback 1.0 s.  (With one client, the first
\* sample of the connection is the tick that finds no earlier tick of this
\* process.)
C16_FirstSampleFixed ==
    [][(nticks' = nticks + 1 /\ lastTick = <<>> /\ lastTick' # <<>>)
          => lastTick'[1].time_delta_sec = 1]_vars

\* C16 (amended): the elapsed time used for a sample is the wall-clock time
\* since last_time of its connection, or 1.0 s when that time is not
\* positive; last_time is the time the connection was accepted for the
\* first sample and the time of the previous sample for every later one.
C16_ElapsedSinceLastTime ==
    [][(nticks' = nticks + 1 /\ lastTick' # <<>>) =>
          LET t == lastTick'[1]
              since == t.now - last_time[t.conn]
          IN  /\ t.measured = since
              /\ t.time_delta_sec = IF since > 0 THEN since ELSE 1
              /\ lastTick # <<>> => last_time[t.conn] = lastTick[1].now]_vars

\* the first sample of a connection came 60 s after the connection was
\* accepted and was applied as a tick of 60 s
C16_Witness ==
    /\ nticks = 1
    /\ lastTick # <<>>
    /\ lastTick[1].now = 60
    /\ lastTick[1].measured = 60
    /\ lastTick[1].time_delta_sec = 60
    /\ lastTick[1].after # lastTick[1].before

\* C17 (as claimed): the rate calculate_state reports is positive whenever
\* the call is charging (at home) and negative whenever it is draining.
C17_SignedRate ==
    \A i \in DOMAIN svc :
        /\ svc[i].out.is_home => svc[i].out.drain_rate > 0
        /\ ~svc[i].out.is_home => svc[i].out.drain_rate < 0

\* C17 (amended): the rate calculate_state reports is a drain rate: at home
\* it is -CHARGE_RATE, away it is BASE_DRAIN_RATE * (1 + nearby_devices *
\* CROWD_FACTOR), which is positive for every device count >= 0; it is the
\* unclamped rate the call applied to the level.
C17_DrainRate ==
    \A i \in DOMAIN svc :
        LET o == svc[i].out
            t == svc[i].time_delta_seconds
            applied == svc[i].current_level - o.drain_rate * t * 10
        IN  /\ o.is_home => o.drain_rate = -CHARGE_RATE /\ o.drain_rate < 0
            /\ ~o.is_home =>
                  /\ o.drain_rate * 1000 = BASE_DRAIN_RATE
                        * (1000 + svc[i].nearby_devices * CROWD_FACTOR)
                  /\ svc[i].nearby_devices >= 0 => o.drain_rate > 0
            /\ t > 0 => o.level = IF o.is_home THEN Min(100 * Scale, applied)
                                  ELSE Max(0, applied)

\* a call at home for 60 s reported -10.0 per minute and raised the level
\* by ten percent
C17_Witness ==
    /\ svc # <<>>
    /\ svc[1].out.is_home
    /\ svc[1].out.status = "CHARGING"
    /\ svc[1].time_delta_seconds = 60
    /\ svc[1].out.drain_rate = -10000
    /\ svc[1].current_level = 50 * Scale
    /\ svc[1].out.level = 60 * Scale

\* C18: every call of battery_core.update made by the websocket loop passes
\* a time_delta_sec that is strictly positive, whatever the clock gave.
C18_PositiveTimeDelta ==
    lastTick # <<>> => lastTick[1].time_delta_sec > 0

\* the clock was set back by 60 s between two reads and the tick was
\* applied as a tick of 1 s
C18_Witness ==
    /\ lastTick # <<>>
    /\ lastTick[1].measured = -60
    /\ lastTick[1].time_delta_sec = 1

\* C19 (as claimed): active_connections holds exactly the connections that
\* were accepted and whose loop has not ended.
C19_ActiveConnections ==
    \A c \in Conns :
        (\E i \in DOMAIN active_connections : active_connections[i] = c)
            <=> pc[c] \in {"recv", "send"}

====
